---- MODULE Spec2Model ----
(***************************************************************************)
(* PineScript-Architect: the generation / refinement pipeline of           *)
(* src/services/geminiService.ts and the session state of src/App.tsx.     *)
(*                                                                         *)
(* Texts are sequences of characters.  Five literals that the code only    *)
(* ever looks for as a whole are one element each: "//@version=" (the      *)
(* version marker), "pine" and "script" (the language hint, in any letter  *)
(* case, the regex being /i), "[ANALYSIS]" and "[CODE]".  Every other      *)
(* element is one character: the backtick, a digit, the newline, the       *)
(* space, and "a" for any other character.                                 *)
(***************************************************************************)
EXTENDS Integers, Sequences, FiniteSets, TLC

\* ------------------------------------------------------------------ bounds
MaxLen == 5
MaxPart == 2
MaxEdge == 1

\* -------------------------------------------------------------- characters
VersionMarker == "//@version="
Backtick == "backtick"
Newline == "\n"
Space == " "
Other == "a"
Pine == "pine"
Script == "script"
AnalysisMarker == "[ANALYSIS]"
CodeMarker == "[CODE]"

\* null, undefined
None == <<"none">>
\* a GeneratedResult that is null
NoResult == [code |-> None, explanation |-> None]

\* \s of the regular expressions
IsSpace(c) == c \in {Newline, Space}
\* \d and [0-9]
IsDigit(c) == c \in {"5", "6"}

\* all texts over alphabet A of length at most n
TextsUpTo(A, n) == UNION {[1..k -> A] : k \in 0..n}

\* ----------------------------------------------------------- string helpers
RECURSIVE TrimStart(_)
TrimStart(s) == IF s # <<>> /\ IsSpace(Head(s)) THEN TrimStart(Tail(s)) ELSE s

RECURSIVE TrimEnd(_)
TrimEnd(s) ==
  IF s # <<>> /\ IsSpace(s[Len(s)]) THEN TrimEnd(SubSeq(s, 1, Len(s) - 1)) ELSE s

\* String.prototype.trim
trim(s) == TrimEnd(TrimStart(s))

\* s.substring(i) with i a 1-based position
From(s, i) == SubSeq(s, i, Len(s))

\* does t occur in s at position i
OccursAt(s, t, i) == i >= 1 /\ i + Len(t) - 1 <= Len(s) /\ SubSeq(s, i, i + Len(t) - 1) = t

\* String.prototype.indexOf, 1-based, 0 when absent
indexOf(s, t) ==
  IF \E i \in 1..(Len(s) + 1) : OccursAt(s, t, i)
  THEN CHOOSE i \in 1..(Len(s) + 1) :
         OccursAt(s, t, i) /\ \A j \in 1..(i - 1) : ~OccursAt(s, t, j)
  ELSE 0

Contains(s, t) == indexOf(s, t) # 0

\* String.prototype.replace(t, "") with a string pattern: the first occurrence
replaceFirst(s, t) ==
  LET i == indexOf(s, t)
  IN  IF i = 0 THEN s ELSE SubSeq(s, 1, i - 1) \o From(s, i + Len(t))

\* position after a greedy \s* starting at i
RECURSIVE SkipSpace(_, _)
SkipSpace(s, i) == IF i <= Len(s) /\ IsSpace(s[i]) THEN SkipSpace(s, i + 1) ELSE i

\* position after a greedy \d* starting at i
RECURSIVE SkipDigits(_, _)
SkipDigits(s, i) == IF i <= Len(s) /\ IsDigit(s[i]) THEN SkipDigits(s, i + 1) ELSE i

\* --------------------------------------------------- the fenced-block regex
Fence == <<Backtick, Backtick, Backtick>>

\* (?:pinescript|pine|) at position j: the positions after each alternative
\* that applies, in the order the regex tries them
HintEnds(s, j) ==
  (IF OccursAt(s, <<Pine, Script>>, j) THEN <<j + 2>> ELSE <<>>)
    \o (IF OccursAt(s, <<Pine>>, j) THEN <<j + 1>> ELSE <<>>)
    \o <<j>>

\* ([\s\S]*?)\s* and the closing fence, from position e: the least end of the lazy group, 0 if none
RECURSIVE LazyEnd(_, _)
LazyEnd(s, e) ==
  IF e > Len(s) + 1 THEN 0
  ELSE IF OccursAt(s, Fence, SkipSpace(s, e)) THEN e
  ELSE LazyEnd(s, e + 1)

NoMatch == [found |-> FALSE]

\* the rest of the regex after the opening fence at i, for the alternatives alts.
\* The first \s* is greedy; giving whitespace back cannot turn a failure into
\* a match, because the closing fence is searched for to the right of it.
RECURSIVE TryHints(_, _, _)
TryHints(s, i, alts) ==
  IF alts = <<>> THEN NoMatch
  ELSE LET p == SkipSpace(s, Head(alts))
           e == LazyEnd(s, p)
       IN  IF e # 0
           THEN [found |-> TRUE, index |-> i, capFrom |-> p, capTo |-> e - 1,
                 last |-> SkipSpace(s, e) + 2]
           ELSE TryHints(s, i, Tail(alts))

MatchAt(s, i) ==
  IF OccursAt(s, Fence, i) THEN TryHints(s, i, HintEnds(s, i + 3)) ELSE NoMatch

\* text.match(codeBlockRegex), the regex being fence (?:pinescript|pine|) \s*
\* ([\s\S]*?) \s* fence with flag i: the leftmost match
RECURSIVE MatchFrom(_, _)
MatchFrom(s, i) ==
  IF i > Len(s) THEN NoMatch
  ELSE IF MatchAt(s, i).found THEN MatchAt(s, i)
  ELSE MatchFrom(s, i + 1)

codeBlockRegex(s) == MatchFrom(s, 1)

\* match[0] and match[1]
Whole(s, m) == SubSeq(s, m.index, m.last)
Group1(s, m) == SubSeq(s, m.capFrom, m.capTo)

\* ------------------------------------------------------------ postProcessCode
\* version.replace(/[^0-9]/g, "")
versionNum(version) == SelectSeq(version, IsDigit)

versionTag(version) == <<VersionMarker>> \o versionNum(version)

\* cleanCode.replace(/\/\/@version=\d+\s*/g, "")
RECURSIVE RemoveVersionTags(_, _)
RemoveVersionTags(s, i) ==
  IF i > Len(s) THEN <<>>
  ELSE IF s[i] = VersionMarker /\ i + 1 <= Len(s) /\ IsDigit(s[i + 1])
       THEN RemoveVersionTags(s, SkipSpace(s, SkipDigits(s, i + 1)))
       ELSE <<s[i]>> \o RemoveVersionTags(s, i + 1)

\* position after a greedy \n* starting at i
RECURSIVE SkipNewlines(_, _)
SkipNewlines(s, i) == IF i <= Len(s) /\ s[i] = Newline THEN SkipNewlines(s, i + 1) ELSE i

\* cleanCode.replace(/\n{3,}/g, "\n\n")
RECURSIVE TrimExtraNewlines(_, _)
TrimExtraNewlines(s, i) ==
  IF i > Len(s) THEN <<>>
  ELSE IF OccursAt(s, <<Newline, Newline, Newline>>, i)
       THEN <<Newline, Newline>> \o TrimExtraNewlines(s, SkipNewlines(s, i))
       ELSE <<s[i]>> \o TrimExtraNewlines(s, i + 1)

\* step 1: extract from a Markdown block if present
ExtractFromMarkdown(rawText) ==
  LET match == codeBlockRegex(rawText)
  IN  IF match.found THEN trim(Group1(rawText, match)) ELSE rawText

postProcessCode(rawText, version) ==
  LET cleanCode1 == ExtractFromMarkdown(rawText)
      cleanCode2 == RemoveVersionTags(cleanCode1, 1)
      cleanCode3 == versionTag(version) \o <<Newline>> \o cleanCode2
  IN  TrimExtraNewlines(cleanCode3, 1)

\* ------------------------------------------------- parsing of the response
Sentinel == <<"// Error: Could not parse code block.">>

RefineFailureComment ==
  "// ERROR: AI failed to generate the updated code block. Please try refining again."

RefineFailureMarker == <<Newline, Newline, RefineFailureComment>>

RefineFailureExplanation ==
  <<"I understood your request but failed to generate the full code structure. Please try again.">>

IsSectionMarker(c) == c \in {AnalysisMarker, CodeMarker}

\* explanation.replace(/\[ANALYSIS\]|\[CODE\]/g, "")
RemoveSectionMarkers(s) == SelectSeq(s, LAMBDA c : ~IsSectionMarker(c))

\* the explanation with the section markers left in
explanationWithMarkers(text, codeBlockMatch) ==
  trim(replaceFirst(text, Whole(text, codeBlockMatch)))

\* the explanation of a response with a fenced block
explanationAround(text, codeBlockMatch) ==
  trim(RemoveSectionMarkers(trim(replaceFirst(text, Whole(text, codeBlockMatch)))))

\* String.prototype.lastIndexOf, 1-based, 0 when absent
lastIndexOf(s, t) ==
  IF \E i \in 1..(Len(s) + 1) : OccursAt(s, t, i)
  THEN CHOOSE i \in 1..(Len(s) + 1) :
         OccursAt(s, t, i) /\ \A j \in (i + 1)..(Len(s) + 1) : ~OccursAt(s, t, j)
  ELSE 0

\* the parse splitting at the last version marker instead of the first
generateParseLastMarker(text) ==
  LET codeBlockMatch == codeBlockRegex(text)
      versionIdx == lastIndexOf(text, <<VersionMarker>>)
  IN  IF codeBlockMatch.found
      THEN [code |-> Group1(text, codeBlockMatch),
            explanation |-> explanationAround(text, codeBlockMatch)]
      ELSE IF versionIdx # 0
      THEN [code |-> From(text, versionIdx),
            explanation |-> SubSeq(text, 1, versionIdx - 1)]
      ELSE [code |-> Sentinel, explanation |-> text]

\* the parse leaving the code empty when nothing is found
generateParseEmptyCode(text) ==
  LET codeBlockMatch == codeBlockRegex(text)
      versionIdx == indexOf(text, <<VersionMarker>>)
  IN  IF codeBlockMatch.found
      THEN [code |-> Group1(text, codeBlockMatch),
            explanation |-> explanationAround(text, codeBlockMatch)]
      ELSE IF versionIdx # 0
      THEN [code |-> From(text, versionIdx),
            explanation |-> SubSeq(text, 1, versionIdx - 1)]
      ELSE [code |-> <<>>, explanation |-> text]

\* generatePineScript: "Parse"
generateParse(text) ==
  LET codeBlockMatch == codeBlockRegex(text)
      versionIdx == indexOf(text, <<VersionMarker>>)
  IN  IF codeBlockMatch.found
      THEN [code |-> Group1(text, codeBlockMatch),
            explanation |-> explanationAround(text, codeBlockMatch)]
      ELSE IF versionIdx # 0
      THEN [code |-> From(text, versionIdx),
            explanation |-> SubSeq(text, 1, versionIdx - 1)]
      ELSE [code |-> Sentinel, explanation |-> text]

\* refinePineScript: the same parse, with the prior code kept on failure
refineParse(text, currentCode) ==
  LET codeBlockMatch == codeBlockRegex(text)
      versionIdx == indexOf(text, <<VersionMarker>>)
  IN  IF codeBlockMatch.found
      THEN [code |-> Group1(text, codeBlockMatch),
            explanation |-> explanationAround(text, codeBlockMatch)]
      ELSE IF versionIdx # 0
      THEN [code |-> From(text, versionIdx),
            explanation |-> SubSeq(text, 1, versionIdx - 1)]
      ELSE [code |-> currentCode \o RefineFailureMarker,
            explanation |-> RefineFailureExplanation]

\* ------------------------------------------ generatePineScript, refinePineScript
NORMALIZING_REQUEST == "NORMALIZING_REQUEST"
OPTIMIZING_LOGIC == "OPTIMIZING_LOGIC"
GENERATING_CODE == "GENERATING_CODE"
VALIDATING_OUTPUT == "VALIDATING_OUTPUT"

\* the errors a call can end with
PipelineError == "Pipeline Error: Failed to generate valid script."
RefineError == "Failed to refine script."
CallbackError == "error thrown by onStatusUpdate"

\* onStatusUpdate: absent, or a callback that throws on the statuses throwsOn
NoCallback == [given |-> FALSE, throwsOn |-> {}]
Callback(throwsOn) == [given |-> TRUE, throwsOn |-> throwsOn]

\* if (onStatusUpdate) onStatusUpdate(status): the calls made so far, and
\* whether this one threw
Notify(onStatusUpdate, status, calls) ==
  IF onStatusUpdate.given
  THEN [calls |-> Append(calls, status), threw |-> status \in onStatusUpdate.throwsOn]
  ELSE [calls |-> calls, threw |-> FALSE]

\* generatePineScript notifying GENERATING_CODE before OPTIMIZING_LOGIC
generateStartSwapped(onStatusUpdate) ==
  LET n1 == Notify(onStatusUpdate, NORMALIZING_REQUEST, <<>>)
      n2 == Notify(onStatusUpdate, GENERATING_CODE, n1.calls)
      n3 == Notify(onStatusUpdate, OPTIMIZING_LOGIC, n2.calls)
  IN  IF n1.threw THEN [pc |-> "threw", calls |-> n1.calls, error |-> CallbackError]
      ELSE IF n2.threw THEN [pc |-> "threw", calls |-> n2.calls, error |-> PipelineError]
      ELSE IF n3.threw THEN [pc |-> "threw", calls |-> n3.calls, error |-> PipelineError]
      ELSE [pc |-> "awaiting", calls |-> n3.calls, error |-> None]

\* generatePineScript up to its await: the first notification is outside the
\* try block, the next two are inside it
generateStart(onStatusUpdate) ==
  LET n1 == Notify(onStatusUpdate, NORMALIZING_REQUEST, <<>>)
      n2 == Notify(onStatusUpdate, OPTIMIZING_LOGIC, n1.calls)
      n3 == Notify(onStatusUpdate, GENERATING_CODE, n2.calls)
  IN  IF n1.threw THEN [pc |-> "threw", calls |-> n1.calls, error |-> CallbackError]
      ELSE IF n2.threw THEN [pc |-> "threw", calls |-> n2.calls, error |-> PipelineError]
      ELSE IF n3.threw THEN [pc |-> "threw", calls |-> n3.calls, error |-> PipelineError]
      ELSE [pc |-> "awaiting", calls |-> n3.calls, error |-> None]

\* response.text || ""
TextOf(response) == IF response.text = None THEN <<>> ELSE response.text

\* generatePineScript notifying VALIDATING_OUTPUT before it learns that the
\* completion call rejected
generateFinishValidatingFirst(version, onStatusUpdate, calls, response) ==
  LET n4 == Notify(onStatusUpdate, VALIDATING_OUTPUT, calls)
      parsed == generateParse(TextOf(response))
  IN  IF ~response.ok \/ n4.threw
      THEN [pc |-> "threw", calls |-> n4.calls, error |-> PipelineError, value |-> NoResult]
      ELSE [pc |-> "returned", calls |-> n4.calls, error |-> None,
            value |-> [code |-> postProcessCode(parsed.code, version),
                       explanation |-> parsed.explanation]]

\* generatePineScript throwing when the parse finds no code
generateFinishStrict(version, onStatusUpdate, calls, response) ==
  LET n4 == Notify(onStatusUpdate, VALIDATING_OUTPUT, calls)
      parsed == generateParse(TextOf(response))
  IN  IF ~response.ok THEN [pc |-> "threw", calls |-> calls, error |-> PipelineError, value |-> NoResult]
      ELSE IF n4.threw \/ parsed.code = Sentinel
      THEN [pc |-> "threw", calls |-> n4.calls, error |-> PipelineError, value |-> NoResult]
      ELSE [pc |-> "returned", calls |-> n4.calls, error |-> None,
            value |-> [code |-> postProcessCode(parsed.code, version),
                       explanation |-> parsed.explanation]]

\* generatePineScript from the end of its await: response.ok is FALSE when
\* the completion call rejected
generateFinish(version, onStatusUpdate, calls, response) ==
  LET n4 == Notify(onStatusUpdate, VALIDATING_OUTPUT, calls)
      parsed == generateParse(TextOf(response))
  IN  IF ~response.ok THEN [pc |-> "threw", calls |-> calls, error |-> PipelineError, value |-> NoResult]
      ELSE IF n4.threw
      THEN [pc |-> "threw", calls |-> n4.calls, error |-> PipelineError, value |-> NoResult]
      ELSE [pc |-> "returned", calls |-> n4.calls, error |-> None,
            value |-> [code |-> postProcessCode(parsed.code, version),
                       explanation |-> parsed.explanation]]

\* refinePineScript from the end of its await
refineFinish(currentCode, version, response) ==
  LET parsed == refineParse(TextOf(response), currentCode)
  IN  IF ~response.ok THEN [pc |-> "threw", error |-> RefineError, value |-> NoResult]
      ELSE [pc |-> "returned", error |-> None,
            value |-> [code |-> postProcessCode(parsed.code, version),
                       explanation |-> parsed.explanation]]

\* which rule of the parse a response text falls under
ParseRule(text) ==
  IF codeBlockRegex(text).found THEN "fence"
  ELSE IF Contains(text, <<VersionMarker>>) THEN "marker"
  ELSE "neither"

\* ------------------------------------------------------------------- state
VARIABLES norm, ext, svc, pdf, enh, ret, asm,
          params, loadingState, result, errorMsg, chatMessages, chatInput,
          pending, nextRun, lastRun,
          isEnhancing, selectedFile, isAnalyzingPdf, assists

assistVars == <<isEnhancing, selectedFile, isAnalyzingPdf, assists>>
appVars == <<params, loadingState, result, errorMsg, chatMessages, chatInput,
             pending, nextRun, lastRun, assistVars>>
harness == <<norm, ext, svc, pdf, enh, ret, asm>>
vars == <<harness, appVars>>

Versions == {<<"v", "5">>, <<"v", "6">>}
Idle == [pc |-> "unused"]

\* a response as the prompt asks for it
FencedResponse ==
  <<AnalysisMarker>> \o Fence \o <<Pine, Newline, VersionMarker, "5", Newline, Other, Newline>>
    \o Fence

\* ------------------------------------------------------------ App (App.tsx)
MaxRuns == 3

IDLE == "IDLE"
NORMALIZING == "NORMALIZING"
OPTIMIZING == "OPTIMIZING"
GENERATING == "GENERATING"
VALIDATING == "VALIDATING"
REFINING == "REFINING"
SUCCESS == "SUCCESS"
ERROR == "ERROR"

RefineFailedMessage == <<"Error: Failed to refine code. Please try again.">>
NoRun == [id |-> 0, op |-> "none", outcome |-> "none", calls |-> <<>>, final |-> IDLE,
          userMsg |-> None, from |-> IDLE, started |-> IDLE, requests |-> 0,
          completion |-> "none", rule |-> "none", value |-> NoResult]

\* what the user can type as a prompt and as a chat message
Prompts == {<<>>, <<Other>>}
ChatInputs == {<<>>, <<Other>>}

\* the responses of the completion service: a fenced block, a bare script,
\* neither, and no text at all
AppTexts == {FencedResponse, <<Other, VersionMarker, "5", Newline, Other>>, <<Other>>, None}

\* no file is selected
NoFile == "no file"

AppInit ==
  /\ params = [prompt |-> <<>>, version |-> <<"v", "6">>, scriptType |-> "indicator",
               overlay |-> TRUE, customContext |-> <<>>]
  /\ loadingState = IDLE
  /\ result = NoResult
  /\ errorMsg = None
  /\ chatMessages = <<>>
  /\ chatInput = <<>>
  /\ pending = {}
  /\ nextRun = 1
  /\ lastRun = NoRun
  /\ isEnhancing = FALSE
  /\ selectedFile = NoFile
  /\ isAnalyzingPdf = FALSE
  /\ assists = {}

Init == norm = Idle /\ ext = Idle /\ svc = Idle /\ pdf = Idle /\ enh = Idle /\ ret = Idle /\ asm = Idle /\ AppInit

\* updateStatus of handleGenerate: the loading state after a status
updateStatus(status, state) ==
  CASE status = NORMALIZING_REQUEST -> NORMALIZING
    [] status = OPTIMIZING_LOGIC -> OPTIMIZING
    [] status = GENERATING_CODE -> GENERATING
    [] status = VALIDATING_OUTPUT -> VALIDATING
    [] OTHER -> state

\* the loading state after the statuses calls, delivered in turn
RECURSIVE AfterStatuses(_, _)
AfterStatuses(calls, state) ==
  IF calls = <<>> THEN state
  ELSE AfterStatuses(Tail(calls), updateStatus(Head(calls), state))

isGenerating ==
  /\ loadingState # IDLE
  /\ loadingState # SUCCESS
  /\ loadingState # ERROR
  /\ loadingState # REFINING

\* the prompt textarea
TypePrompt ==
  /\ \E p \in Prompts : params' = [params EXCEPT !.prompt = p]
  /\ UNCHANGED <<harness, assistVars, loadingState, result, errorMsg, chatMessages, chatInput, pending,
                 nextRun, lastRun>>

\* the v6 and v5 buttons
SelectVersion ==
  /\ \E v \in Versions : params' = [params EXCEPT !.version = v]
  /\ UNCHANGED <<harness, assistVars, loadingState, result, errorMsg, chatMessages, chatInput, pending,
                 nextRun, lastRun>>

\* the chat input, disabled without a result and while refining
TypeChat ==
  /\ result # NoResult
  /\ loadingState # REFINING
  /\ \E m \in ChatInputs : chatInput' = m
  /\ UNCHANGED <<harness, assistVars, params, loadingState, result, errorMsg, chatMessages, pending,
                 nextRun, lastRun>>

\* the Generate Script button: handleGenerate up to the await of
\* generatePineScript
handleGenerate ==
  /\ ~isGenerating
  /\ trim(params.prompt) # <<>>
  /\ nextRun <= MaxRuns
  /\ LET run == generateStart(Callback({}))
     IN  /\ loadingState' = AfterStatuses(run.calls, NORMALIZING)
         /\ pending' = pending \cup {[id |-> nextRun, op |-> "generate", params |-> params,
                                      currentCode |-> None, userMsg |-> None,
                                      calls |-> run.calls, from |-> loadingState,
                                      started |-> loadingState',
                                      requests |-> IF run.pc = "awaiting" THEN 1 ELSE 0]}
  /\ errorMsg' = None
  /\ result' = NoResult
  /\ chatMessages' = <<>>
  /\ nextRun' = nextRun + 1
  /\ UNCHANGED <<harness, assistVars, params, chatInput, lastRun>>

\* what a finished run leaves for the record
Finished(run, outcome, calls, response, value, final) ==
  [id |-> run.id, op |-> run.op, outcome |-> outcome, calls |-> calls, final |-> final,
   userMsg |-> run.userMsg, from |-> run.from, started |-> run.started,
   requests |-> run.requests,
   completion |-> IF response.ok THEN "resolved" ELSE "rejected",
   rule |-> IF response.ok THEN ParseRule(TextOf(response)) ELSE "none", value |-> value]

\* handleGenerate from the end of its await, with a catch block that leaves
\* the stage as it is
GenerateCompletesQuietly(run, response) ==
  LET done == generateFinish(run.params.version, Callback({}), run.calls, response)
  IN  /\ run.op = "generate"
      /\ IF done.pc = "returned"
         THEN /\ result' = done.value
              /\ chatMessages' = <<[role |-> "model", content |-> done.value.explanation]>>
              /\ loadingState' = SUCCESS
              /\ lastRun' = Finished(run, "success", done.calls, response, done.value, SUCCESS)
              /\ UNCHANGED errorMsg
         ELSE /\ errorMsg' = <<done.error>>
              /\ lastRun' = Finished(run, "error", done.calls, response, done.value, ERROR)
              /\ UNCHANGED <<result, chatMessages, loadingState>>
      /\ pending' = pending \ {run}
      /\ UNCHANGED <<harness, assistVars, params, chatInput, nextRun>>

\* handleGenerate from the end of its await: the try block goes on when
\* generatePineScript returned, the catch block runs when it threw
GenerateCompletes(run, response) ==
  LET done == generateFinish(run.params.version, Callback({}), run.calls, response)
  IN  /\ run.op = "generate"
      /\ IF done.pc = "returned"
         THEN /\ result' = done.value
              /\ chatMessages' = <<[role |-> "model", content |-> done.value.explanation]>>
              /\ loadingState' = SUCCESS
              /\ lastRun' = Finished(run, "success", done.calls, response, done.value, SUCCESS)
              /\ UNCHANGED errorMsg
         ELSE /\ errorMsg' = <<done.error>>
              /\ loadingState' = ERROR
              /\ lastRun' = Finished(run, "error", done.calls, response, done.value, ERROR)
              /\ UNCHANGED <<result, chatMessages>>
      /\ pending' = pending \ {run}
      /\ UNCHANGED <<harness, assistVars, params, chatInput, nextRun>>

\* the completion call of a generation run resolves
GenerateResolves ==
  \E run \in pending, text \in AppTexts : GenerateCompletes(run, [ok |-> TRUE, text |-> text])

\* the completion call of a generation run rejects
GenerateRejects ==
  \E run \in pending : GenerateCompletes(run, [ok |-> FALSE, text |-> None])

\* the send button and the Enter key of the chat input: handleRefine up to
\* the await of refinePineScript
handleRefine ==
  /\ result # NoResult
  /\ loadingState # REFINING
  /\ trim(chatInput) # <<>>
  /\ nextRun <= MaxRuns
  /\ chatInput' = <<>>
  /\ chatMessages' = Append(chatMessages, [role |-> "user", content |-> chatInput])
  /\ loadingState' = REFINING
  /\ pending' = pending \cup {[id |-> nextRun, op |-> "refine", params |-> params,
                               currentCode |-> result.code, userMsg |-> chatInput,
                               calls |-> <<>>, from |-> loadingState,
                               started |-> loadingState', requests |-> 1]}
  /\ nextRun' = nextRun + 1
  /\ UNCHANGED <<harness, assistVars, params, result, errorMsg, lastRun>>

\* handleRefine with a catch block that ends in ERROR
RefineCompletesToError(run, response) ==
  LET done == refineFinish(run.currentCode, run.params.version, response)
  IN  /\ run.op = "refine"
      /\ IF done.pc = "returned"
         THEN /\ result' = done.value
              /\ chatMessages' =
                   Append(chatMessages, [role |-> "model", content |-> done.value.explanation])
              /\ loadingState' = SUCCESS
              /\ lastRun' = Finished(run, "success", <<>>, response, done.value, SUCCESS)
         ELSE /\ chatMessages' =
                   Append(chatMessages, [role |-> "model", content |-> RefineFailedMessage])
              /\ loadingState' = ERROR
              /\ lastRun' = Finished(run, "failed", <<>>, response, done.value, ERROR)
              /\ UNCHANGED result
      /\ pending' = pending \ {run}
      /\ UNCHANGED <<harness, assistVars, params, errorMsg, chatInput, nextRun>>

\* handleRefine from the end of its await
RefineCompletes(run, response) ==
  LET done == refineFinish(run.currentCode, run.params.version, response)
  IN  /\ run.op = "refine"
      /\ IF done.pc = "returned"
         THEN /\ result' = done.value
              /\ chatMessages' =
                   Append(chatMessages, [role |-> "model", content |-> done.value.explanation])
              /\ loadingState' = SUCCESS
              /\ lastRun' = Finished(run, "success", <<>>, response, done.value, SUCCESS)
         ELSE /\ chatMessages' =
                   Append(chatMessages, [role |-> "model", content |-> RefineFailedMessage])
              /\ loadingState' = SUCCESS
              /\ lastRun' = Finished(run, "failed", <<>>, response, done.value, SUCCESS)
              /\ UNCHANGED result
      /\ pending' = pending \ {run}
      /\ UNCHANGED <<harness, assistVars, params, errorMsg, chatInput, nextRun>>

\* the completion call of a refinement run resolves
RefineResolves ==
  \E run \in pending, text \in AppTexts : RefineCompletes(run, [ok |-> TRUE, text |-> text])

\* the completion call of a refinement run rejects
RefineRejects ==
  \E run \in pending : RefineCompletes(run, [ok |-> FALSE, text |-> None])

\* the Clear button, shown while the prompt is not empty
handleClear ==
  /\ params.prompt # <<>>
  /\ params' = [params EXCEPT !.prompt = <<>>, !.customContext = <<>>]
  /\ result' = NoResult
  /\ chatMessages' = <<>>
  /\ loadingState' = IDLE
  /\ selectedFile' = NoFile
  /\ UNCHANGED <<harness, isEnhancing, isAnalyzingPdf, assists, errorMsg, chatInput, pending,
                 nextRun, lastRun>>

Next ==
  \/ TypePrompt
  \/ SelectVersion
  \/ TypeChat
  \/ handleGenerate
  \/ GenerateResolves
  \/ GenerateRejects
  \/ handleRefine
  \/ RefineResolves
  \/ RefineRejects
  \/ handleClear

Spec == Init /\ [][Next]_vars

\* ------------------------------------------- postProcessCode, called directly
NormAlphabet == {VersionMarker, "5", Newline, Space, Other, Backtick}

NormInit ==
  /\ \E x \in TextsUpTo(NormAlphabet, MaxLen), v \in Versions :
       norm = [rawText |-> x, version |-> v, pc |-> "input", once |-> None, twice |-> None]
  /\ ext = Idle
  /\ svc = Idle
  /\ pdf = Idle
  /\ enh = Idle
  /\ ret = Idle
  /\ asm = Idle
  /\ AppInit

Normalize ==
  /\ norm.pc = "input"
  /\ norm' = [norm EXCEPT !.pc = "once", !.once = postProcessCode(norm.rawText, norm.version)]
  /\ UNCHANGED <<ext, svc, pdf, enh, ret, asm, appVars>>

NormalizeAgain ==
  /\ norm.pc = "once"
  /\ norm' = [norm EXCEPT !.pc = "twice", !.twice = postProcessCode(norm.once, norm.version)]
  /\ UNCHANGED <<ext, svc, pdf, enh, ret, asm, appVars>>

NormNext == Normalize \/ NormalizeAgain

SpecNormalize == NormInit /\ [][NormNext]_vars

\* -------------------------------------------- the parse, applied to a response
PlainAlphabet == {VersionMarker, "5", Newline, Other, Backtick}
BeforeAlphabet == {Backtick, Space, AnalysisMarker, VersionMarker}
InsideAlphabet == {Backtick, Newline, Other, Pine, Script}
AfterAlphabet == {Backtick, Newline, CodeMarker}
Hints == {<<>>, <<Pine>>, <<Pine, Script>>}

\* a second fenced block after the first
SecondBlock == Fence \o <<Other>> \o Fence
AfterTexts == TextsUpTo(AfterAlphabet, MaxEdge) \cup {SecondBlock}

\* E1 + fence + hint + C + fence + E2
Fenced(e1, hint, c, e2) == e1 \o Fence \o hint \o c \o Fence \o e2

\* the code a refinement turn starts from
PriorCode == <<VersionMarker, "5", Newline, Other>>

ExtInit ==
  /\ norm = Idle
  /\ svc = Idle
  /\ pdf = Idle
  /\ enh = Idle
  /\ ret = Idle
  /\ asm = Idle
  /\ AppInit
  /\ \/ \E x \in TextsUpTo(PlainAlphabet, MaxLen) :
          ext = [shape |-> "plain", text |-> x, pc |-> "response", parsed |-> None,
                 e1 |-> None, hint |-> None, c |-> None, e2 |-> None]
     \/ \E e1 \in TextsUpTo(BeforeAlphabet, MaxEdge), hint \in Hints,
           c \in TextsUpTo(InsideAlphabet, MaxPart), e2 \in AfterTexts :
          ext = [shape |-> "fenced", text |-> Fenced(e1, hint, c, e2), pc |-> "response",
                 parsed |-> None, e1 |-> e1, hint |-> hint, c |-> c, e2 |-> e2]

ParseGeneration ==
  /\ ext.pc = "response"
  /\ ext' = [ext EXCEPT !.pc = "generated", !.parsed = generateParse(ext.text)]
  /\ UNCHANGED <<norm, svc, pdf, enh, ret, asm, appVars>>

ParseRefinement ==
  /\ ext.pc = "response"
  /\ ext' = [ext EXCEPT !.pc = "refined", !.parsed = refineParse(ext.text, PriorCode)]
  /\ UNCHANGED <<norm, svc, pdf, enh, ret, asm, appVars>>

ExtNext == ParseGeneration \/ ParseRefinement

SpecExtract == ExtInit /\ [][ExtNext]_vars

\* --------------------------------- the service, called as a session calls it
MaxCalls == 2

Statuses == {NORMALIZING_REQUEST, OPTIMIZING_LOGIC, GENERATING_CODE, VALIDATING_OUTPUT}
Callbacks == {NoCallback, Callback({})} \cup {Callback({st}) : st \in Statuses}

SvcAlphabet == {VersionMarker, "5", Other, Newline}
\* a response without a fenced block whose version declarations, once
\* removed, leave one
SplicedResponse ==
  <<VersionMarker, "5", Backtick, VersionMarker, "5", Backtick, Backtick, Other, Backtick,
    VersionMarker, "5", Backtick, Backtick>>
SvcTexts == TextsUpTo(SvcAlphabet, MaxPart) \cup {FencedResponse, SplicedResponse}
Responses == {[ok |-> TRUE, text |-> t] : t \in SvcTexts \cup {None}} \cup {[ok |-> FALSE, text |-> None]}

SvcInit ==
  /\ norm = Idle
  /\ ext = Idle
  /\ pdf = Idle
  /\ enh = Idle
  /\ ret = Idle
  /\ asm = Idle
  /\ AppInit
  /\ svc = [pc |-> "ready", op |-> "none", version |-> None, onStatusUpdate |-> NoCallback,
            calls |-> <<>>, currentCode |-> None, rule |-> "none", completion |-> "none",
            error |-> None, value |-> NoResult, result |-> NoResult, n |-> 0]

\* a caller calls generatePineScript(params, onStatusUpdate)
CallGenerate ==
  /\ svc.pc \in {"ready", "returned", "threw"}
  /\ svc.n < MaxCalls
  /\ \E v \in Versions, cb \in Callbacks :
       LET run == generateStart(cb)
       IN  svc' = [svc EXCEPT !.pc = run.pc, !.op = "generate", !.version = v,
                              !.onStatusUpdate = cb, !.calls = run.calls,
                              !.currentCode = None, !.rule = "none",
                              !.completion = IF run.pc = "awaiting" THEN "pending" ELSE "none",
                              !.error = run.error, !.value = NoResult, !.n = svc.n + 1]
  /\ UNCHANGED <<norm, ext, pdf, enh, ret, asm, appVars>>

\* a caller calls refinePineScript(result.code, instruction, params) with the
\* code of the last result it got
CallRefine ==
  /\ svc.pc \in {"returned", "threw"}
  /\ svc.result # NoResult
  /\ svc.n < MaxCalls
  /\ \E v \in Versions :
       svc' = [svc EXCEPT !.pc = "awaiting", !.op = "refine", !.version = v,
                          !.onStatusUpdate = NoCallback, !.calls = <<>>,
                          !.currentCode = svc.result.code, !.rule = "none",
                          !.completion = "pending", !.error = None, !.value = NoResult,
                          !.n = svc.n + 1]
  /\ UNCHANGED <<norm, ext, pdf, enh, ret, asm, appVars>>

\* the completion call of generatePineScript resolves or rejects, and the
\* call runs to its end
CompleteGenerate ==
  /\ svc.pc = "awaiting"
  /\ svc.op = "generate"
  /\ \E response \in Responses :
       LET run == generateFinish(svc.version, svc.onStatusUpdate, svc.calls, response)
       IN  svc' = [svc EXCEPT !.pc = run.pc, !.calls = run.calls, !.error = run.error,
                              !.value = run.value,
                              !.result = IF run.pc = "returned" THEN run.value ELSE svc.result,
                              !.rule = IF response.ok THEN ParseRule(TextOf(response)) ELSE "none",
                              !.completion = IF response.ok THEN "resolved" ELSE "rejected"]
  /\ UNCHANGED <<norm, ext, pdf, enh, ret, asm, appVars>>

\* the same for refinePineScript
CompleteRefine ==
  /\ svc.pc = "awaiting"
  /\ svc.op = "refine"
  /\ \E response \in Responses :
       LET run == refineFinish(svc.currentCode, svc.version, response)
       IN  svc' = [svc EXCEPT !.pc = run.pc, !.error = run.error, !.value = run.value,
                              !.result = IF run.pc = "returned" THEN run.value ELSE svc.result,
                              !.rule = IF response.ok THEN ParseRule(TextOf(response)) ELSE "none",
                              !.completion = IF response.ok THEN "resolved" ELSE "rejected"]
  /\ UNCHANGED <<norm, ext, pdf, enh, ret, asm, appVars>>

SvcNext == CallGenerate \/ CallRefine \/ CompleteGenerate \/ CompleteRefine

SpecService == SvcInit /\ [][SvcNext]_vars

\* ------------------------------------------------- extractStrategyFromPdf
\* The response text of the document analysis is a sequence of JSON tokens:
\* punctuation, the literals, numbers, strings (written with their quotes),
\* whitespace, and a bare word that no JSON text has.
MaxTokens == 3

LBrace == "{"
RBrace == "}"
LBracket == "["
RBracket == "]"
Colon == ":"
Comma == ","
BareWord == "x"
Literals == {"true", "false", "null"}
Numbers == {"0", "1"}
StringTokens == {"\"scriptType\"", "\"overlay\"", "\"generatedPrompt\"", "\"strategy\"",
                 "\"indicator\"", "\"oscillator\"", "\"\"", "\"text\""}

\* the characters between the quotes of a string token
StringOf(token) ==
  CASE token = "\"scriptType\"" -> "scriptType"
    [] token = "\"overlay\"" -> "overlay"
    [] token = "\"generatedPrompt\"" -> "generatedPrompt"
    [] token = "\"strategy\"" -> "strategy"
    [] token = "\"indicator\"" -> "indicator"
    [] token = "\"oscillator\"" -> "oscillator"
    [] token = "\"\"" -> ""
    [] token = "\"text\"" -> "text"

PropertyNames == {StringOf(token) : token \in StringTokens}

\* JavaScript values: a type and a printed form
Undefined == [type |-> "undefined", val |-> "undefined"]
Null == [type |-> "null", val |-> "null"]
Bool(b) == [type |-> "boolean", val |-> IF b THEN "true" ELSE "false"]
Str(s) == [type |-> "string", val |-> s]
Num(n) == [type |-> "number", val |-> n]
EmptyObject == [type |-> "object", val |-> "object"]
ArrayObject == [type |-> "object", val |-> "array"]

\* !v
Falsy(v) == v \in {Undefined, Null, Bool(FALSE), Str(""), Num("0")}

\* an object without properties of its own
NoProps == [name \in PropertyNames |-> Undefined]

\* JSON.parse, the grammar: the index after the value that starts at token
\* i of t, or 0 when no value starts there
RECURSIVE ValueEnd(_, _), ElementsEnd(_, _), MembersEnd(_, _)
ValueEnd(t, i) ==
  IF i > Len(t) THEN 0
  ELSE IF t[i] \in Literals \cup Numbers \cup StringTokens THEN i + 1
  ELSE IF t[i] = LBracket
  THEN IF i + 1 <= Len(t) /\ t[i + 1] = RBracket THEN i + 2 ELSE ElementsEnd(t, i + 1)
  ELSE IF t[i] = LBrace
  THEN IF i + 1 <= Len(t) /\ t[i + 1] = RBrace THEN i + 2 ELSE MembersEnd(t, i + 1)
  ELSE 0

ElementsEnd(t, i) ==
  LET e == ValueEnd(t, i)
  IN  IF e = 0 \/ e > Len(t) THEN 0
      ELSE IF t[e] = RBracket THEN e + 1
      ELSE IF t[e] = Comma THEN ElementsEnd(t, e + 1)
      ELSE 0

MembersEnd(t, i) ==
  IF i + 1 > Len(t) THEN 0
  ELSE IF t[i] \notin StringTokens \/ t[i + 1] # Colon THEN 0
  ELSE LET e == ValueEnd(t, i + 2)
       IN  IF e = 0 \/ e > Len(t) THEN 0
           ELSE IF t[e] = RBrace THEN e + 1
           ELSE IF t[e] = Comma THEN MembersEnd(t, e + 1)
           ELSE 0

\* the value that starts at token i of the valid text t; a nested object or
\* array is kept as an object only
ValueAt(t, i) ==
  IF t[i] \in StringTokens THEN Str(StringOf(t[i]))
  ELSE IF t[i] \in Numbers THEN Num(t[i])
  ELSE IF t[i] = "null" THEN Null
  ELSE IF t[i] \in Literals THEN Bool(t[i] = "true")
  ELSE IF t[i] = LBracket THEN ArrayObject
  ELSE EmptyObject

\* the properties of the object whose members start at token i of the valid
\* text t; a repeated name keeps its last value
RECURSIVE Members(_, _, _)
Members(t, i, props) ==
  IF t[i] = RBrace THEN props
  ELSE LET e == ValueEnd(t, i + 2)
           set == [props EXCEPT ![StringOf(t[i])] = ValueAt(t, i + 2)]
       IN  IF t[e] = RBrace THEN set ELSE Members(t, e + 1, set)

\* JSON.parse(text): whitespace between tokens is skipped; ok is FALSE when
\* it throws a SyntaxError
JSONparse(text) ==
  LET t == SelectSeq(text, LAMBDA c : c # Space)
  IN  IF ValueEnd(t, 1) # Len(t) + 1
      THEN [ok |-> FALSE, value |-> Undefined, props |-> NoProps]
      ELSE [ok |-> TRUE, value |-> ValueAt(t, 1),
            props |-> IF t[1] = LBrace THEN Members(t, 2, NoProps) ELSE NoProps]

PdfError == "Failed to analyze PDF. Please ensure the file is valid."
ExtractFailureNotice == "Failed to extract prompt from PDF."
ParseFailureNotice ==
  "Error parsing PDF analysis. The AI processed the file but returned invalid JSON."

\* the object the inner catch block returns
ParseFailureResult ==
  [NoProps EXCEPT !["scriptType"] = Str("indicator"), !["overlay"] = Bool(TRUE),
                  !["generatedPrompt"] = Str(ParseFailureNotice)]

\* extractStrategyFromPdf with an inner catch block that throws again
extractStrategyFromPdfRethrowing(response) ==
  LET text == IF response.text = None \/ response.text = <<>>
              THEN <<LBrace, RBrace>> ELSE response.text
      parsed == JSONparse(text)
  IN  IF ~response.ok \/ ~parsed.ok \/ parsed.value.type # "object"
      THEN [pc |-> "threw", error |-> PdfError, value |-> NoProps]
      ELSE [pc |-> "returned", error |-> None, value |-> parsed.props]

\* extractStrategyFromPdf from the end of its await. Reading a property of
\* null and, in a module (strict code), setting a property of a number, a
\* string or a boolean throw a TypeError inside the inner try block.
extractStrategyFromPdf(response) ==
  LET text == IF response.text = None \/ response.text = <<>>
              THEN <<LBrace, RBrace>> ELSE response.text
      parsed == JSONparse(text)
      result0 == parsed.props
      result1 == IF Falsy(result0["scriptType"])
                 THEN [result0 EXCEPT !["scriptType"] = Str("indicator")] ELSE result0
      result2 == IF result1["overlay"].type # "boolean"
                 THEN [result1 EXCEPT !["overlay"] = Bool(TRUE)] ELSE result1
      result3 == IF Falsy(result2["generatedPrompt"])
                 THEN [result2 EXCEPT !["generatedPrompt"] = Str(ExtractFailureNotice)]
                 ELSE result2
  IN  IF ~response.ok THEN [pc |-> "threw", error |-> PdfError, value |-> NoProps]
      ELSE IF ~parsed.ok \/ parsed.value.type # "object"
      THEN [pc |-> "returned", error |-> None, value |-> ParseFailureResult]
      ELSE [pc |-> "returned", error |-> None, value |-> result3]

\* the response texts: every short token sequence, and every object with
\* each of the three fields absent or set to one of the values FieldValues
PdfAlphabet == {LBrace, RBrace, LBracket, RBracket, Colon, Comma, "true", "null", "0",
                "\"\"", "\"scriptType\"", Space, BareWord}
Absent == <<>>
FieldValues == {<<"true">>, <<"false">>, <<"null">>, <<"0">>, <<"1">>, <<"\"\"">>,
                <<"\"strategy\"">>, <<"\"indicator\"">>, <<"\"oscillator\"">>,
                <<"\"text\"">>, <<LBrace, RBrace>>, <<LBracket, RBracket>>}

\* "name": value, or nothing for an absent field
Member(name, value) == IF value = Absent THEN <<>> ELSE <<name, Colon>> \o value

\* the members joined with commas
JoinMembers(a, b) == IF a = <<>> THEN b ELSE IF b = <<>> THEN a ELSE a \o <<Comma>> \o b

ObjectText(scriptType, overlay, generatedPrompt) ==
  <<LBrace>>
    \o JoinMembers(JoinMembers(Member("\"scriptType\"", scriptType),
                               Member("\"overlay\"", overlay)),
                   Member("\"generatedPrompt\"", generatedPrompt))
    \o <<RBrace>>

ObjectTexts ==
  {ObjectText(s, o, g) : s \in FieldValues \cup {Absent}, o \in FieldValues \cup {Absent},
                         g \in FieldValues \cup {Absent}}

PdfResponses ==
  {[ok |-> TRUE, text |-> t] : t \in TextsUpTo(PdfAlphabet, MaxTokens) \cup ObjectTexts \cup {None}}
    \cup {[ok |-> FALSE, text |-> None]}

PdfInit ==
  /\ norm = Idle
  /\ ext = Idle
  /\ svc = Idle
  /\ enh = Idle
  /\ ret = Idle
  /\ asm = Idle
  /\ AppInit
  /\ \E response \in PdfResponses :
       pdf = [pc |-> "awaiting", response |-> response, error |-> None, value |-> NoProps]

\* the completion call of extractStrategyFromPdf resolves or rejects, and
\* the call runs to its end
AnalyzePdf ==
  /\ pdf.pc = "awaiting"
  /\ LET run == extractStrategyFromPdf(pdf.response)
     IN  pdf' = [pdf EXCEPT !.pc = run.pc, !.error = run.error, !.value = run.value]
  /\ UNCHANGED <<norm, ext, svc, enh, ret, asm, appVars>>

PdfNext == AnalyzePdf

SpecPdf == PdfInit /\ [][PdfNext]_vars

\* ----------------------------------------------------------- enhancePrompt
\* what a user types and what the completion service answers
EnhAlphabet == {Space, Newline, Other}
EnhTexts == TextsUpTo(EnhAlphabet, MaxPart)
EnhResponses ==
  {[ok |-> TRUE, text |-> t] : t \in EnhTexts \cup {None}} \cup {[ok |-> FALSE, text |-> None]}

\* enhancePrompt without the trim
enhancePromptUntrimmed(inputText, response) ==
  IF ~response.ok THEN [pc |-> "returned", value |-> inputText]
  ELSE IF response.text = None \/ response.text = <<>>
  THEN [pc |-> "returned", value |-> inputText]
  ELSE [pc |-> "returned", value |-> response.text]

\* enhancePrompt from the end of its await: response.text?.trim() || inputText,
\* and inputText from the catch block
enhancePrompt(inputText, response) ==
  IF ~response.ok THEN [pc |-> "returned", value |-> inputText]
  ELSE IF response.text = None \/ trim(response.text) = <<>>
  THEN [pc |-> "returned", value |-> inputText]
  ELSE [pc |-> "returned", value |-> trim(response.text)]

EnhInit ==
  /\ norm = Idle
  /\ ext = Idle
  /\ svc = Idle
  /\ pdf = Idle
  /\ ret = Idle
  /\ asm = Idle
  /\ AppInit
  /\ \E inputText \in EnhTexts, response \in EnhResponses :
       enh = [pc |-> "awaiting", inputText |-> inputText, response |-> response,
              value |-> None]

\* the completion call of enhancePrompt resolves or rejects, and the call
\* runs to its end
Enhance ==
  /\ enh.pc = "awaiting"
  /\ LET run == enhancePrompt(enh.inputText, enh.response)
     IN  enh' = [enh EXCEPT !.pc = run.pc, !.value = run.value]
  /\ UNCHANGED <<norm, ext, svc, pdf, ret, asm, appVars>>

EnhNext == Enhance

SpecEnhance == EnhInit /\ [][EnhNext]_vars

\* ------------------------- generatePineScript on a script of another version
MaxBody == 3

BodyAlphabet == {Newline, Space, Other, VersionMarker, "5"}
Digits == {"5", "6"}

\* a response whose fenced block holds the version declaration of m and,
\* on the next line, the body
VersionedResponse(m, body) ==
  <<Other, Space>> \o Fence \o <<Pine, Newline, VersionMarker, m, Newline>> \o body
    \o <<Newline>> \o Fence

RetInit ==
  /\ norm = Idle
  /\ ext = Idle
  /\ svc = Idle
  /\ pdf = Idle
  /\ enh = Idle
  /\ asm = Idle
  /\ AppInit
  /\ \E m \in Digits, body \in TextsUpTo(BodyAlphabet, MaxBody), target \in Versions :
       ret = [pc |-> "awaiting", m |-> m, body |-> body, target |-> target,
              value |-> NoResult]

\* the completion call of generatePineScript resolves with the response,
\* and the call runs to its end
Retarget ==
  /\ ret.pc = "awaiting"
  /\ LET run == generateFinish(ret.target, NoCallback, <<>>,
                                [ok |-> TRUE, text |-> VersionedResponse(ret.m, ret.body)])
     IN  ret' = [ret EXCEPT !.pc = run.pc, !.value = run.value]
  /\ UNCHANGED <<norm, ext, svc, pdf, enh, asm, appVars>>

RetNext == Retarget

SpecRetarget == RetInit /\ [][RetNext]_vars

\* ------------------------------------------- App.tsx: prompt enhancement and PDF
EnhancementFailed == <<"Enhancement failed. Please try again.">>
InvalidFile == <<"Please select a valid PDF file.">>
AnalyzeFailed == <<"Failed to analyze PDF.">>

\* the files of the file input, by their type
Files == {"application/pdf", "text/plain"}

\* what the enhancement call and the analysis call can answer
AssistEnhResponses ==
  {[ok |-> TRUE, text |-> <<Other, Other>>], [ok |-> TRUE, text |-> <<Space>>],
   [ok |-> FALSE, text |-> None]}
AssistPdfResponses ==
  {[ok |-> TRUE, text |-> ObjectText(<<"\"strategy\"">>, <<"false">>, <<"\"text\"">>)],
   [ok |-> TRUE, text |-> <<BareWord>>],
   [ok |-> FALSE, text |-> None]}

\* the text of a string value
TextOfString(value) == IF value.val = "" THEN <<>> ELSE <<value.val>>

\* the magic wand of the prompt: handleEnhanceMain up to its await
handleEnhanceMain ==
  /\ trim(params.prompt) # <<>>
  /\ ~isEnhancing
  /\ isEnhancing' = TRUE
  /\ errorMsg' = None
  /\ assists' = assists \cup {[op |-> "enhance", inputText |-> params.prompt]}
  /\ UNCHANGED <<harness, selectedFile, isAnalyzingPdf, params, loadingState, result,
                 chatMessages, chatInput, pending, nextRun, lastRun>>

\* handleEnhanceMain from the end of its await
EnhanceMainCompletes(call, response) ==
  LET done == enhancePrompt(call.inputText, response)
  IN  /\ call.op = "enhance"
      /\ IF done.pc = "returned"
         THEN /\ params' = [params EXCEPT !.prompt = done.value]
              /\ UNCHANGED errorMsg
         ELSE /\ errorMsg' = EnhancementFailed
              /\ UNCHANGED params
      /\ isEnhancing' = FALSE
      /\ assists' = assists \ {call}
      /\ UNCHANGED <<harness, selectedFile, isAnalyzingPdf, loadingState, result,
                     chatMessages, chatInput, pending, nextRun, lastRun>>

\* the enhancement call resolves or rejects
EnhanceMainSettles ==
  \E call \in assists, response \in AssistEnhResponses : EnhanceMainCompletes(call, response)

\* the file input
handleFileSelect ==
  /\ \E file \in Files :
       IF file # "application/pdf"
       THEN /\ errorMsg' = InvalidFile
            /\ UNCHANGED selectedFile
       ELSE /\ selectedFile' = file
            /\ errorMsg' = None
  /\ UNCHANGED <<harness, isEnhancing, isAnalyzingPdf, assists, params, loadingState, result,
                 chatMessages, chatInput, pending, nextRun, lastRun>>

\* the Analyze button: handleAnalyzePdf up to its first await
handleAnalyzePdf ==
  /\ selectedFile # NoFile
  /\ ~isAnalyzingPdf
  /\ isAnalyzingPdf' = TRUE
  /\ errorMsg' = None
  /\ assists' = assists \cup {[op |-> "analyze", inputText |-> <<>>]}
  /\ UNCHANGED <<harness, isEnhancing, selectedFile, params, loadingState, result,
                 chatMessages, chatInput, pending, nextRun, lastRun>>

\* handleAnalyzePdf from the end of its awaits; readable says whether the
\* FileReader delivered the file
AnalyzePdfCompletes(call, readable, response) ==
  LET done == extractStrategyFromPdf(response)
  IN  /\ call.op = "analyze"
      /\ IF readable /\ done.pc = "returned"
         THEN /\ params' =
                   [params EXCEPT
                      !.prompt = TextOfString(done.value["generatedPrompt"]),
                      !.scriptType = done.value["scriptType"].val,
                      !.overlay = (done.value["overlay"].val = "true"),
                      !.customContext =
                        <<"[Source PDF Analysis]: ">>
                          \o TextOfString(done.value["generatedPrompt"])]
              /\ UNCHANGED errorMsg
         ELSE /\ errorMsg' = IF readable THEN <<done.error>> ELSE AnalyzeFailed
              /\ UNCHANGED params
      /\ isAnalyzingPdf' = FALSE
      /\ assists' = assists \ {call}
      /\ UNCHANGED <<harness, isEnhancing, selectedFile, loadingState, result, chatMessages,
                     chatInput, pending, nextRun, lastRun>>

\* the FileReader fails, or the analysis call resolves or rejects
AnalyzePdfSettles ==
  \E call \in assists, readable \in BOOLEAN, response \in AssistPdfResponses :
    AnalyzePdfCompletes(call, readable, response)

\* the remove button of the selected file
handleClearFile ==
  /\ selectedFile # NoFile
  /\ selectedFile' = NoFile
  /\ UNCHANGED <<harness, isEnhancing, isAnalyzingPdf, assists, params, loadingState, result,
                 errorMsg, chatMessages, chatInput, pending, nextRun, lastRun>>

\* the App with its enhancement and PDF handlers and the generations that
\* fail
AssistNext ==
  \/ TypePrompt
  \/ handleGenerate
  \/ GenerateRejects
  \/ handleEnhanceMain
  \/ EnhanceMainSettles
  \/ handleFileSelect
  \/ handleAnalyzePdf
  \/ AnalyzePdfSettles
  \/ handleClearFile

SpecAssist == Init /\ [][AssistNext]_vars

\* run id is in flight: its handler is at its await
InFlight(id) == \E run \in pending : run.id = id

\* The App when every completion call resolves or rejects in the end. The
\* promise of run id settles and the event loop then runs the rest of the
\* handler, which takes the run out of pending; nothing else does, and that
\* step is enabled as long as the run is in flight. So weak fairness of the
\* completion step of run id is the same as run id being out of flight
\* again and again, which is the form stated here.
SpecLive == Init /\ [][Next]_vars /\ \A id \in 1..MaxRuns : []<>(~ InFlight(id))

\* ------------------------------- the prompts of generatePineScript, refinePineScript
\* A prompt is a sequence of pieces: the fixed texts of the templates and the
\* policy fragments are one piece each (whatever they mention), the values
\* the templates interpolate are pieces of their own.
MaxModel == 3

INSTITUTIONAL_GUIDELINES == "INSTITUTIONAL_GUIDELINES"
QUALITY_CHECKS == "QUALITY_CHECKS"
SYNTAX_SAFETY_GUARD == "SYNTAX_SAFETY_GUARD"
ARCHITECTURE_RULES == "### ARCHITECTURE RULES"
GenerateContextHead == "### USER KNOWLEDGE BASE (PDF/CUSTOM CONTEXT)"
RefineContextHead == "### ORIGINAL KNOWLEDGE BASE (CONTEXT)"

\* params.model || "gemini-3-pro-preview"; a selector is a sequence of its
\* characters, the parts of the two selectors of the App are one piece each
ProModel == <<"gemini-3-", "p", "r", "o", "-preview">>
FlashModel == <<"gemini-3-flash-preview">>
EffectiveModel(request) == IF request.model = <<>> THEN ProModel ELSE request.model

\* model.includes("pro") on the selector as given, without the default
isExpertModeOfSelector(request) == Contains(request.model, <<"p", "r", "o">>)

\* model.includes("pro")
isExpertMode(request) == Contains(EffectiveModel(request), <<"p", "r", "o">>)

\* String(overlay), scriptType.toUpperCase()
OverlayText(overlay) == IF overlay THEN "true" ELSE "false"
toUpperCase(scriptType) == IF scriptType = "indicator" THEN "INDICATOR" ELSE "STRATEGY"

\* customContextPrompt of generatePineScript
generateContextPrompt(request) ==
  IF request.customContext # <<>>
  THEN <<GenerateContextHead, "[START OF PDF CONTEXT]">> \o request.customContext
         \o <<"[END OF PDF CONTEXT]">>
  ELSE <<>>

\* systemPrompt of generatePineScript
generateSystemPrompt(request) ==
  <<"You are PineArchitect-v5. Current Task: Generate Production-Ready Pine Script">>
    \o request.version
    \o (IF isExpertMode(request) THEN <<INSTITUTIONAL_GUIDELINES>> ELSE <<>>)
    \o <<QUALITY_CHECKS, SYNTAX_SAFETY_GUARD, ARCHITECTURE_RULES,
         "7. Declaration: Use ONLY", request.scriptType, "declaration.">>
    \o generateContextPrompt(request)
    \o <<"### OUTPUT FORMAT", AnalysisMarker, CodeMarker>> \o Fence \o <<Pine, Script, Newline>>
    \o versionTag(request.version)
    \o <<Newline, request.scriptType, "(Title, shorttitle, overlay=",
         OverlayText(request.overlay), ")", Newline>>
    \o Fence

\* userPrompt of generatePineScript
generateUserPrompt(request) ==
  <<"SCRIPT CONFIGURATION: - Type:", toUpperCase(request.scriptType), "- Overlay:",
    OverlayText(request.overlay), "- Mode:",
    IF isExpertMode(request) THEN "INSTITUTIONAL / EXPERT" ELSE "STANDARD", "USER REQUEST:">>
    \o request.prompt
    \o <<"EXECUTION INSTRUCTIONS:",
         IF isExpertMode(request) THEN "2. Pro-Upgrade" ELSE "2. Implement the logic as requested.">>

\* the text generatePineScript sends: systemPrompt + "\n\n" + userPrompt
generateInstruction(request) ==
  generateSystemPrompt(request) \o <<Newline, Newline>> \o generateUserPrompt(request)

\* customContextPrompt of refinePineScript
refineContextPrompt(request) ==
  IF request.customContext # <<>>
  THEN <<RefineContextHead>> \o request.customContext
  ELSE <<>>

\* systemPrompt of refinePineScript
refineSystemPrompt(request) ==
  <<"You are a Pine Script Refinement Specialist (Expert Level).", QUALITY_CHECKS>>
    \o (IF isExpertMode(request) THEN <<INSTITUTIONAL_GUIDELINES>> ELSE <<>>)
    \o <<SYNTAX_SAFETY_GUARD>>
    \o refineContextPrompt(request)
    \o <<"### RULES FOR REFINEMENT (CRITICAL):", "### OUTPUT FORMAT", AnalysisMarker,
         CodeMarker>>
    \o Fence \o <<Pine, Script, Newline>>
    \o versionTag(request.version)
    \o <<Newline, "... (FULL UPDATED CODE HERE) ...", Newline>>
    \o Fence

\* userPrompt of refinePineScript
refineUserPrompt(currentCode, instruction) ==
  <<"CURRENT CODE:">> \o Fence \o <<Pine, Script, Newline>> \o currentCode \o <<Newline>>
    \o Fence \o <<"USER INSTRUCTION:">> \o instruction
    \o <<"Output the [ANALYSIS] and the [CODE] blocks.">>

\* the text refinePineScript sends
refineInstruction(currentCode, instruction, request) ==
  refineSystemPrompt(request) \o <<Newline, Newline>> \o refineUserPrompt(currentCode, instruction)

\* the requests: every short selector and the two selectors of the App
Models == TextsUpTo({"p", "r", "o", "P"}, MaxModel) \cup {ProModel, FlashModel}
ScriptTypes == {"indicator", "strategy"}
AsmParams ==
  [prompt : {<<Other>>}, scriptType : ScriptTypes, overlay : BOOLEAN, version : Versions,
   model : Models, customContext : {<<>>, <<Other, Newline, Other>>}]

AsmInit ==
  /\ norm = Idle
  /\ ext = Idle
  /\ svc = Idle
  /\ pdf = Idle
  /\ enh = Idle
  /\ ret = Idle
  /\ AppInit
  /\ \E p \in AsmParams :
       asm = [pc |-> "request", params |-> p, isExpertMode |-> FALSE, systemPrompt |-> <<>>,
              instruction |-> <<>>]

\* generatePineScript builds its prompts
AssembleGeneration ==
  /\ asm.pc = "request"
  /\ asm' = [asm EXCEPT !.pc = "generation", !.isExpertMode = isExpertMode(asm.params),
                        !.systemPrompt = generateSystemPrompt(asm.params),
                        !.instruction = generateInstruction(asm.params)]
  /\ UNCHANGED <<norm, ext, svc, pdf, enh, ret, appVars>>

\* refinePineScript builds its prompts
AssembleRefinement ==
  /\ asm.pc = "request"
  /\ asm' = [asm EXCEPT !.pc = "refinement", !.isExpertMode = isExpertMode(asm.params),
                        !.systemPrompt = refineSystemPrompt(asm.params),
                        !.instruction = refineInstruction(<<Other>>, <<Other>>, asm.params)]
  /\ UNCHANGED <<norm, ext, svc, pdf, enh, ret, appVars>>

AsmNext == AssembleGeneration \/ AssembleRefinement

SpecPrompt == AsmInit /\ [][AsmNext]_vars

\* ===================================================================== claims
\* positions of the version declarations (marker followed by a digit) of s
DeclPositions(s) == {i \in 1..Len(s) : s[i] = VersionMarker /\ i < Len(s) /\ IsDigit(s[i + 1])}

\* C3: normalization is idempotent: normalizing the normalized text again
\* gives the same text.
C3_Idempotent == norm.pc = "twice" => norm.twice = norm.once

\* C4: the output of postProcessCode has exactly one version declaration,
\* it is the first line, and it is the one built from the target version.
C4_SingleVersionMarker ==
  norm.pc \in {"once", "twice"} =>
    /\ DeclPositions(norm.once) = {1}
    /\ OccursAt(norm.once, versionTag(norm.version) \o <<Newline>>, 1)

\* the decomposition E1, hint, C, E2 of a fenced response is the one the
\* text has: the opening fence is the first fence of the text, the closing
\* fence is the first one after the hint, and the hint is the longest one
CanonicalBlock ==
  /\ ext.shape = "fenced"
  /\ indexOf(ext.e1 \o Fence, Fence) = Len(ext.e1) + 1
  /\ indexOf(ext.c \o Fence, Fence) = Len(ext.c) + 1
  /\ ext.hint = <<>> => ~OccursAt(ext.c, <<Pine>>, 1)
  /\ ext.hint = <<Pine>> => ~OccursAt(ext.c, <<Script>>, 1)

RoundTrip ==
  /\ ext.parsed.code = trim(ext.c)
  /\ ext.parsed.explanation = trim(RemoveSectionMarkers(ext.e1 \o ext.e2))

\* C8 as stated: for every response E1 + fenced block with interior C + E2,
\* the parse returns the trimmed C as code and trim(E1 + E2) without the
\* section markers as explanation.
C8_RoundTripEveryText ==
  ext.pc \in {"generated", "refined"} /\ ext.shape = "fenced" => RoundTrip

\* C8 amended: the same, for the responses whose opening fence is the first
\* triple backtick of the text, whose closing fence is the first triple
\* backtick after the hint, and whose hint is the longest the text allows.
C8_RoundTrip ==
  ext.pc \in {"generated", "refined"} /\ CanonicalBlock => RoundTrip

C8_Witness ==
  /\ ext.pc = "generated"
  /\ CanonicalBlock
  /\ ext.e1 = <<AnalysisMarker>>
  /\ ext.hint = <<Pine>>
  /\ ext.c = <<Newline, Other>>
  /\ ext.e2 = SecondBlock
  /\ ext.parsed.code = <<Other>>
  /\ ext.parsed.explanation = SecondBlock

\* C9: a response with no fenced block and a version marker is split at the
\* first marker: the explanation is the text before it, the code the text
\* from it on; and when a fenced block is there as well as a marker before
\* it, the block is taken, not the text from the marker on.
C9_Fallback ==
  ext.pc = "generated" =>
    /\ (~codeBlockRegex(ext.text).found /\ Contains(ext.text, <<VersionMarker>>)) =>
         /\ ext.parsed.explanation \o ext.parsed.code = ext.text
         /\ Head(ext.parsed.code) = VersionMarker
         /\ ~Contains(ext.parsed.explanation, <<VersionMarker>>)
    /\ (CanonicalBlock /\ Contains(ext.e1, <<VersionMarker>>)) =>
         /\ ext.parsed.code = trim(ext.c)
         /\ ~Contains(ext.parsed.code, Fence)

C9_Witness ==
  /\ ext.pc = "generated"
  /\ ext.text = <<Other, VersionMarker, "5", VersionMarker>>
  /\ ext.parsed.code = <<VersionMarker, "5", VersionMarker>>
  /\ ext.parsed.explanation = <<Other>>

\* C10: a response with neither a fenced block nor a version marker, the
\* empty response included, gets the fixed sentinel as code and the whole
\* raw text as explanation.
C10_Sentinel ==
  (/\ ext.pc = "generated"
   /\ ~codeBlockRegex(ext.text).found
   /\ ~Contains(ext.text, <<VersionMarker>>)) =>
    /\ ext.parsed.code = Sentinel
    /\ ext.parsed.code # <<>>
    /\ ext.parsed.explanation = ext.text

C10_Witness ==
  /\ ext.pc = "generated"
  /\ ext.text = <<>>
  /\ ext.parsed = [code |-> Sentinel, explanation |-> <<>>]

\* the code a refinement returned holds the code it was given, followed by
\* the failure comment
KeepsPriorCode(code, currentCode) ==
  \E i \in 1..Len(code) :
    /\ OccursAt(code, currentCode, i)
    /\ \E j \in (i + Len(currentCode))..Len(code) : code[j] = RefineFailureComment

\* C1: refinement non-erasure: when the response of a refinement has neither
\* a fenced block nor a version marker, refinePineScript returns, and the
\* code it returns contains the prior code followed by the failure comment.
C1_NonErasure ==
  (svc.op = "refine" /\ svc.completion = "resolved" /\ svc.rule = "neither") =>
    /\ svc.pc = "returned"
    /\ KeepsPriorCode(svc.value.code, svc.currentCode)

\* C7: the progress callback is best-effort: a call of generatePineScript
\* whose completion call resolves returns its result, and a call throws only
\* when its completion call rejected, whatever onStatusUpdate does.
C7_CallbackBestEffort ==
  svc.op = "generate" =>
    /\ svc.completion = "resolved" => svc.pc = "returned"
    /\ svc.pc = "threw" => svc.completion = "rejected"

\* C2: at most one run is in flight: a generation run and a refinement run
\* are never both awaiting the completion service.
C2_OneRunInFlight ==
  ~\E g \in pending, r \in pending : g.op = "generate" /\ r.op = "refine"

\* the stages a run showed: the loading state of each status it passed to
\* the progress callback, then the loading state its handler ended with
ObservedStages(run) ==
  [i \in 1..Len(run.calls) |-> updateStatus(run.calls[i], IDLE)] \o <<run.final>>

\* C5: stage ordering: a generation run whose completion call succeeded
\* showed exactly Normalizing, Optimizing, Generating, Validating, Success.
C5_StageOrdering ==
  (lastRun.op = "generate" /\ lastRun.outcome = "success") =>
    ObservedStages(lastRun) = <<NORMALIZING, OPTIMIZING, GENERATING, VALIDATING, SUCCESS>>

C5_Witness ==
  /\ lastRun.op = "generate"
  /\ lastRun.outcome = "success"
  /\ Len(lastRun.calls) = 4
  /\ loadingState = SUCCESS
  /\ result # NoResult

\* a step in which the completion call of a refinement turn fails
RefinementFails ==
  lastRun'.id # lastRun.id /\ lastRun'.op = "refine" /\ lastRun'.outcome = "failed"

\* C6: when the completion call of a refinement turn fails, the current code
\* is left as it is, one failure message is appended after the message of
\* the user, and the session is in Success with a code to refine again.
C6_RefineFailureRejected ==
  [][RefinementFails =>
       /\ result' = result
       /\ chatMessages # <<>>
       /\ chatMessages[Len(chatMessages)] = [role |-> "user", content |-> lastRun'.userMsg]
       /\ chatMessages' = Append(chatMessages, [role |-> "model", content |-> RefineFailedMessage])
       /\ loadingState' = SUCCESS
       /\ result' # NoResult]_vars


\* the text of the response is not valid JSON
InvalidJSON(response) == response.ok /\ ~JSONparse(TextOf(response)).ok

\* C11: when the response text is not valid JSON, extractStrategyFromPdf
\* returns, and what it returns is an indicator with overlay true and a
\* failure notice as its prompt: the notice of the catch block, or, for a
\* response without text (read as an empty object), the notice of the
\* generatedPrompt default.
C11_StructuredDefaults ==
  (pdf.pc \in {"returned", "threw"} /\ InvalidJSON(pdf.response)) =>
    /\ pdf.pc = "returned"
    /\ pdf.value =
         [NoProps EXCEPT !["scriptType"] = Str("indicator"), !["overlay"] = Bool(TRUE),
                         !["generatedPrompt"] =
                           Str(IF TextOf(pdf.response) = <<>> THEN ExtractFailureNotice
                               ELSE ParseFailureNotice)]

\* a text that starts as an object and breaks off was analysed
C11_Witness ==
  /\ pdf.pc = "returned"
  /\ pdf.response.text = <<LBrace, "\"scriptType\"", Colon>>
  /\ pdf.value["generatedPrompt"] = Str(ParseFailureNotice)

\* C12: when the response text is valid JSON, every field of the returned
\* result is well typed: scriptType is strategy or indicator, overlay is a
\* boolean, generatedPrompt is a string that is not empty.
C12_FieldDefaults ==
  (pdf.pc \in {"returned", "threw"} /\ pdf.response.ok /\ ~InvalidJSON(pdf.response)) =>
    /\ pdf.pc = "returned"
    /\ pdf.value["scriptType"] \in {Str("strategy"), Str("indicator")}
    /\ pdf.value["overlay"].type = "boolean"
    /\ pdf.value["generatedPrompt"].type = "string"
    /\ pdf.value["generatedPrompt"].val # ""

\* C13: enhancePrompt returns, and when the completion call failed or its
\* text is absent, empty or whitespace only, it returns the input text.
C13_EnhanceFallback ==
  enh.pc # "awaiting" =>
    /\ enh.pc = "returned"
    /\ (~enh.response.ok \/ enh.response.text = None \/ trim(enh.response.text) = <<>>)
         => enh.value = enh.inputText

\* a whitespace-only answer to an input that is not whitespace
C13_Witness ==
  /\ enh.pc = "returned"
  /\ enh.response = [ok |-> TRUE, text |-> <<Space, Newline>>]
  /\ enh.inputText = <<Other>>
  /\ enh.value = <<Other>>


\* C14: the code of every result generatePineScript or refinePineScript
\* returns is not empty: it starts with the version declaration of the
\* target version, and when the response had neither a fenced block nor a
\* version marker it holds the error marker of the call (the sentinel of
\* generation, the failure comment of refinement).
C14_NonEmptyCode ==
  svc.pc = "returned" =>
    /\ svc.value.code # <<>>
    /\ OccursAt(svc.value.code, versionTag(svc.version) \o <<Newline>>, 1)
    /\ svc.rule = "neither" =>
         Contains(svc.value.code,
                  IF svc.op = "generate" THEN Sentinel ELSE <<RefineFailureComment>>)


\* C15: generation on a response whose fenced block is the version
\* declaration of m followed by a body returns the version declaration of
\* the target version, a newline, and the body unchanged.
C15_Retargeting ==
  ret.pc = "returned" =>
    ret.value.code = versionTag(ret.target) \o <<Newline>> \o ret.body


\* a is b or the start of b
IsPrefix(a, b) == Len(a) <= Len(b) /\ SubSeq(b, 1, Len(a)) = a

\* C16: every step other than Clear and the start of a generation leaves
\* the chat messages as they are or appends to them.
C16_ChatAppendOnly ==
  [][(~handleClear /\ ~handleGenerate) => IsPrefix(chatMessages, chatMessages')]_vars

\* C17: while a run is in flight, a step that neither starts nor completes
\* a run leaves result and chatMessages unchanged.
C17_AtomicReplace ==
  [][(pending # {} /\ pending' = pending) => UNCHANGED <<result, chatMessages>>]_vars

\* C18: a refinement run starts from SUCCESS or ERROR, sets REFINING, makes
\* no status notification, and sets SUCCESS at its end, whether it updated
\* the code, found no code in the response, or its completion call failed.
C18_RefineStages ==
  lastRun.op = "refine" =>
    /\ lastRun.from \in {SUCCESS, ERROR}
    /\ lastRun.started = REFINING
    /\ lastRun.calls = <<>>
    /\ lastRun.final = SUCCESS

\* a refinement run whose completion call failed has ended
C18_Witness ==
  /\ lastRun.op = "refine"
  /\ lastRun.completion = "rejected"
  /\ lastRun.outcome = "failed"
  /\ loadingState = SUCCESS

\* C19: a generation run whose completion call fails made one completion
\* call, notified NORMALIZING_REQUEST, OPTIMIZING_LOGIC and GENERATING_CODE
\* once each and ends in ERROR; a generation run started from ERROR starts
\* at NORMALIZING_REQUEST and, when its call succeeds, goes through the four
\* statuses to SUCCESS.
C19_FailedRunAndFreshStart ==
  /\ (lastRun.op = "generate" /\ lastRun.completion = "rejected") =>
       /\ lastRun.requests = 1
       /\ ObservedStages(lastRun) = <<NORMALIZING, OPTIMIZING, GENERATING, ERROR>>
  /\ (lastRun.op = "generate" /\ lastRun.from = ERROR) =>
       /\ lastRun.requests = 1
       /\ lastRun.started = GENERATING
       /\ lastRun.completion = "resolved" =>
            ObservedStages(lastRun) = <<NORMALIZING, OPTIMIZING, GENERATING, VALIDATING, SUCCESS>>

\* a generation run started from ERROR has succeeded
C19_Witness ==
  /\ lastRun.op = "generate"
  /\ lastRun.from = ERROR
  /\ lastRun.outcome = "success"
  /\ lastRun.id > 1

\* C20: a generation run whose response has neither a fenced block nor a
\* version marker ends in SUCCESS with the sentinel in the code of its
\* result, and the loading state is ERROR only after a generation run whose
\* completion call rejected.
C20_ExtractionFailureIsSuccess ==
  /\ (lastRun.op = "generate" /\ lastRun.rule = "neither") =>
       /\ lastRun.outcome = "success"
       /\ lastRun.final = SUCCESS
       /\ Contains(lastRun.value.code, Sentinel)
  /\ loadingState = ERROR =>
       /\ lastRun.op = "generate"
       /\ lastRun.completion = "rejected"

\* the result on screen is the sentinel of a generation run
C20_Witness ==
  /\ lastRun.op = "generate"
  /\ lastRun.rule = "neither"
  /\ loadingState = SUCCESS
  /\ result = lastRun.value
  /\ Contains(result.code, Sentinel)


\* the place of the piece in the prompt, 0 when it is not there
PlaceOf(prompt, piece) == indexOf(prompt, <<piece>>)

\* C21: in the system prompt of generation and of refinement the fragments
\* come in one order: domain guidelines (in expert mode only), quality
\* checklist, syntax-safety rules, architecture rules, supplemental context
\* (only when customContext is not empty).
C21_FragmentOrder ==
  asm.pc \in {"generation", "refinement"} =>
    LET guidelines == PlaceOf(asm.systemPrompt, INSTITUTIONAL_GUIDELINES)
        quality == PlaceOf(asm.systemPrompt, QUALITY_CHECKS)
        syntax == PlaceOf(asm.systemPrompt, SYNTAX_SAFETY_GUARD)
        architecture == PlaceOf(asm.systemPrompt, ARCHITECTURE_RULES)
        context == IF asm.pc = "generation"
                   THEN PlaceOf(asm.systemPrompt, GenerateContextHead)
                   ELSE PlaceOf(asm.systemPrompt, RefineContextHead)
    IN  /\ guidelines # 0 <=> asm.isExpertMode
        /\ context # 0 <=> asm.params.customContext # <<>>
        /\ quality # 0 /\ syntax # 0 /\ architecture # 0
        /\ guidelines # 0 => guidelines < quality
        /\ quality < syntax
        /\ syntax < architecture
        /\ context # 0 => architecture < context

\* C23: expert mode is on exactly when the selector, with the default in
\* place of an empty one, contains "pro", and the domain guidelines are in
\* the instruction exactly when expert mode is on.
C23_ExpertMode ==
  asm.pc \in {"generation", "refinement"} =>
    /\ asm.isExpertMode
         <=> Contains(IF asm.params.model = <<>> THEN ProModel ELSE asm.params.model,
                      <<"p", "r", "o">>)
    /\ Contains(asm.instruction, <<INSTITUTIONAL_GUIDELINES>>) <=> asm.isExpertMode

\* a refinement with an empty selector carries the guidelines
C23_Witness ==
  /\ asm.pc = "refinement"
  /\ asm.params.model = <<>>
  /\ asm.isExpertMode
  /\ Contains(asm.instruction, <<INSTITUTIONAL_GUIDELINES>>)

Newlines(n) == [i \in 1..n |-> Newline]

\* k line feeds in a row are k - 1 blank lines: three or more blank lines
\* become two (three line feeds), fewer stay
CollapsedRun(k) == IF k - 1 >= 3 THEN 3 ELSE k

\* the text with every run of blank lines collapsed so; run counts the
\* line feeds read since the last other character
RECURSIVE CollapseBlankLines(_, _)
CollapseBlankLines(s, run) ==
  IF s = <<>> THEN Newlines(CollapsedRun(run))
  ELSE IF Head(s) = Newline THEN CollapseBlankLines(Tail(s), run + 1)
  ELSE Newlines(CollapsedRun(run)) \o <<Head(s)>> \o CollapseBlankLines(Tail(s), 0)

\* a text of plain characters and line feeds that starts and ends with a
\* plain character: no fence, no version declaration, nothing to trim
PlainLines(s) ==
  /\ s # <<>>
  /\ \A i \in 1..Len(s) : s[i] \in {Other, Newline}
  /\ s[1] = Other
  /\ s[Len(s)] = Other

\* C22: normalization turns every run of three or more blank lines of the
\* input into exactly two blank lines and leaves shorter runs as they are
\* (on a text where nothing else of the normalization applies, the output
\* is the version line followed by the text with its runs collapsed so).
C22_BlankLineRuns ==
  (norm.pc = "once" /\ PlainLines(norm.rawText)) =>
    norm.once = versionTag(norm.version) \o <<Newline>> \o CollapseBlankLines(norm.rawText, 0)


\* the lines of a text: what stands between its line feeds
RECURSIVE LinesOf(_, _)
LinesOf(s, line) ==
  IF s = <<>> THEN <<line>>
  ELSE IF Head(s) = Newline THEN <<line>> \o LinesOf(Tail(s), <<>>)
  ELSE LinesOf(Tail(s), Append(line, Head(s)))

\* a line that is not blank and holds no version declaration
CodeLine(line) ==
  /\ \E i \in 1..Len(line) : line[i] # Space
  /\ ~ Contains(line, <<VersionMarker>>)

\* the lines of the text that normalization has to keep
RECURSIVE CodeLines(_)
CodeLines(lines) ==
  IF lines = <<>> THEN <<>>
  ELSE IF CodeLine(Head(lines)) THEN <<Head(lines)>> \o CodeLines(Tail(lines))
  ELSE CodeLines(Tail(lines))

\* the lines of a, in their order, are among the lines of b
RECURSIVE IsSubsequence(_, _)
IsSubsequence(a, b) ==
  IF a = <<>> THEN TRUE
  ELSE IF b = <<>> THEN FALSE
  ELSE IF Head(a) = Head(b) THEN IsSubsequence(Tail(a), Tail(b))
  ELSE IsSubsequence(a, Tail(b))

\* C30: normalization changes only version declarations and runs of blank
\* lines: every line of the input that is not blank and holds no version
\* declaration is a line of the output, with the same text and indentation,
\* in the same order (stated for inputs without a fence).
C30_LinesKept ==
  (norm.pc = "once" /\ ~ Contains(norm.rawText, <<Backtick>>)) =>
    IsSubsequence(CodeLines(LinesOf(norm.rawText, <<>>)), LinesOf(norm.once, <<>>))


\* C25: whenever loadingState is SUCCESS, result is not null.
C25_SuccessHasResult == loadingState = SUCCESS => result # NoResult

\* result, chat history and stage as handleClear leaves them
Cleared == result = NoResult /\ chatMessages = <<>> /\ loadingState = IDLE

\* C27: once cleared, result stays null, the chat history stays empty and
\* the stage stays IDLE until a new generation is started, whatever run was
\* in flight when Clear was pressed.
C27_ClearedUntilGenerate == [][(Cleared /\ ~ handleGenerate) => Cleared']_vars

\* no refinement run is in flight
NoRefinementInFlight == \A run \in pending : run.op # "refine"

\* model, (user, model)*
ChatShape(messages) ==
  \A i \in 1..Len(messages) :
    messages[i].role = (IF i % 2 = 1 THEN "model" ELSE "user")

\* C28: whenever no refinement run is in flight, the chat history is empty
\* or a model message followed by pairs of a user message and a model
\* message.
C28_ChatShape ==
  NoRefinementInFlight =>
    /\ ChatShape(chatMessages)
    /\ chatMessages # <<>> => Len(chatMessages) % 2 = 1


\* the stages of a run in flight
InFlightStages == {NORMALIZING, OPTIMIZING, GENERATING, VALIDATING, REFINING}

\* C29: when every completion call resolves or rejects in the end, every
\* started run brings loadingState to SUCCESS or ERROR in the end, and
\* loadingState is in no in-flight stage while no run is in flight.
C29_RunsComeToRest ==
  /\ \A id \in 1..MaxRuns :
       InFlight(id)
         ~> (lastRun.id = id /\ loadingState \in {SUCCESS, ERROR})
  /\ [](pending = {} => loadingState \notin InFlightStages)

\* a generation and a refinement overlapped and both have come to rest
C29_Witness ==
  /\ pending = {}
  /\ lastRun.op = "refine"
  /\ lastRun.started = REFINING
  /\ lastRun.id < nextRun - 1
  /\ loadingState \in {SUCCESS, ERROR}


\* C26: whenever loadingState is ERROR, errorMsg is not null, whatever
\* enhancement, file selection or PDF analysis ran since the error.
C26_ErrorHasMessage == loadingState = ERROR => errorMsg # None

====
